---- MODULE Spec2Model ----
(***************************************************************************)
(* Frame-processing pipeline of aerialintelligence: motion gate, duplicate *)
(* gate, threat scorer, alert cooldown map and the process_frame           *)
(* orchestrator with its session counters.                                 *)
(*                                                                         *)
(* Abstractions (stated once, used throughout):                            *)
(*  - a frame is a one-row raster of NPixels grey pixels, already at the   *)
(*    resolution the deduplicator resizes to, with B = G = R, so that      *)
(*    cv2.resize and cv2.cvtColor return the pixel values unchanged; a     *)
(*    camera of another resolution delivers rasters of a single pixel,     *)
(*    which cv2.resize spreads over the NPixels positions;                 *)
(*  - cv2.GaussianBlur's (21, 21) kernel is scaled to the 3-tap binomial   *)
(*    kernel [1 2 1]/4 with OpenCV's default reflect-101 border;           *)
(*  - an unreadable file is a frame with ok = FALSE (cv2.imread -> None);  *)
(*  - Python's None is <<>> for optional values and "None" for strings;    *)
(*  - percentages and similarities are exact fractions [num, den];         *)
(*  - a classification text is its match profile: how many patterns of     *)
(*    each category re.search finds in it;                                 *)
(*  - time.time() is the integer clock `now`, advanced by Tick.            *)
(***************************************************************************)
EXTENDS Integers, Sequences, FiniteSets, TLC

VARIABLES
    prev_frame,            \* MotionDetector.prev_frame (<<>> = None)
    frame_count,           \* MotionDetector.frame_count
    threshold,             \* MotionDetector.threshold
    min_change_percent,    \* MotionDetector.min_change_percent (fraction)
    prev_hash,             \* FrameDeduplicator.prev_hash (<<>> = None)
    similarity_threshold,  \* FrameDeduplicator.similarity_threshold (fraction)
    stats,                 \* ProcessingState.stats
    last_alert_time,       \* TelegramNotifier._last_alert_time (None = key absent)
    alert_cooldown_seconds,\* TelegramNotifier._alert_cooldown_seconds
    TELEGRAM_ENABLED,      \* Config.TELEGRAM_ENABLED
    THREAT_THRESHOLD,      \* Config.THREAT_THRESHOLD
    now,                   \* time.time()
    result,                \* the dict the last process_frame call returned
    trace,                 \* observer: the last operation, its input and the calls it made
    confirmed,             \* observer: level -> time of the last send the transport confirmed
    instance               \* ProcessingState._instance: 0 = None, else the object's serial

vars == <<prev_frame, frame_count, threshold, min_change_percent, prev_hash,
          similarity_threshold, stats, last_alert_time, alert_cooldown_seconds,
          TELEGRAM_ENABLED, THREAT_THRESHOLD, now, result, trace, confirmed, instance>>

motionVars == <<prev_frame, frame_count, threshold, min_change_percent>>
dedupVars == <<prev_hash, similarity_threshold>>
\* what no call on the pipeline, the gates, the scorer or the notifier assigns: the
\* configuration and the reference to the session object
configVars == <<TELEGRAM_ENABLED, THREAT_THRESHOLD, instance>>

----------------------------------------------------------------------------
(* Bounds of the model *)

NPixels == 2
MaxFrames == 2
MaxTime == 12
TickSeconds == 3

(* Program constants *)

MOTION_THRESHOLD == 25
ALERT_COOLDOWN_DEFAULT == 10
THREAT_THRESHOLD_DEFAULT == 3
BASE_CONFIDENCE == 50

----------------------------------------------------------------------------
(* Values *)

None == <<>>
Some(x) == <<x>>

RECURSIVE Gcd(_, _)
Gcd(a, b) == IF b = 0 THEN a ELSE Gcd(b, a % b)

\* the exact value n/d, in lowest terms
Frac(n, d) == LET g == Gcd(n, d) IN [num |-> n \div g, den |-> d \div g]
Geq(a, b) == a.num * b.den >= b.num * a.den
Less(a, b) == a.num * b.den < b.num * a.den

Zero == Frac(0, 1)
One == Frac(1, 1)
Hundred == Frac(100, 1)

PixelValues == {0, 40}
Rasters == [1..NPixels -> PixelValues]
Undecodable == [ok |-> FALSE, px |-> <<>>]
Frames == {[ok |-> TRUE, px |-> r] : r \in Rasters} \cup {Undecodable}

\* frames of another resolution: a single pixel
NarrowFrames == {[ok |-> TRUE, px |-> <<v>>] : v \in PixelValues}

\* the files a gate can be given: of the usual resolution, of another, or unreadable
GateFrames == Frames \cup NarrowFrames

Levels == {"NONE", "LOW", "MEDIUM", "HIGH", "CRITICAL"}

RECURSIVE SumSeq(_, _)
SumSeq(s, n) == IF n = 0 THEN 0 ELSE s[n] + SumSeq(s, n - 1)

Abs(x) == IF x < 0 THEN -x ELSE x

----------------------------------------------------------------------------
(* MotionDetector *)

\* index of the reflect-101 border pixel standing in for position i of 1..n
Reflect(i, n) ==
    IF n = 1 THEN 1
    ELSE IF i < 1 THEN 2
    ELSE IF i > n THEN n - 1
    ELSE i

\* cv2.cvtColor(..., COLOR_BGR2GRAY) then cv2.GaussianBlur (rounded to nearest)
Preprocess(px) ==
    LET n == Len(px) IN
    [i \in 1..n |->
        (px[Reflect(i - 1, n)] + 2 * px[i] + px[Reflect(i + 1, n)] + 2) \div 4]

\* cv2.absdiff
AbsDiff(a, b) == [i \in 1..Len(a) |-> Abs(a[i] - b[i])]

\* cv2.threshold(delta, thresh, 255, THRESH_BINARY): strictly above thresh
Binarize(delta, t) == [i \in 1..Len(delta) |-> IF delta[i] > t THEN 255 ELSE 0]

\* one pass of cv2.dilate with the default 3x3 kernel
DilateOnce(b) ==
    LET n == Len(b) IN
    [i \in 1..n |->
        IF \E j \in {i - 1, i, i + 1} : j \in 1..n /\ b[j] > 0 THEN 255 ELSE 0]

Dilate2(b) == DilateOnce(DilateOnce(b))

\* motion_percent = (np.sum(thresh > 0) / thresh.size) * 100
MotionPercent(prev, gray, t) ==
    LET th == Dilate2(Binarize(AbsDiff(prev, gray), t))
        motion_pixels == Cardinality({i \in 1..Len(th) : th[i] > 0})
    IN  Frac(motion_pixels * 100, Len(th))

\* the comparison of has_motion turned around
HasMotionReversed(percent, min_percent) == Geq(min_percent, percent)

\* has_motion = motion_percent >= self.min_change_percent
HasMotion(percent, min_percent) == Geq(percent, min_percent)

\* detect_motion dropping the stored frame when the file cannot be read
detect_motion_clears_on_error(frame) ==
    IF ~frame.ok
    THEN [has_motion |-> TRUE, motion_percent |-> Zero,
          prev_frame |-> None, frame_count |-> frame_count + 1]
    ELSE LET gray == Preprocess(frame.px) IN
         IF prev_frame = None
         THEN [has_motion |-> TRUE, motion_percent |-> Hundred,
               prev_frame |-> gray, frame_count |-> frame_count + 1]
         ELSE IF Len(prev_frame) # Len(gray)
         THEN [has_motion |-> TRUE, motion_percent |-> Zero,
               prev_frame |-> prev_frame, frame_count |-> frame_count + 1]
         ELSE LET motion_percent == MotionPercent(prev_frame, gray, threshold) IN
              [has_motion |-> HasMotion(motion_percent, min_change_percent),
               motion_percent |-> motion_percent,
               prev_frame |-> gray, frame_count |-> frame_count + 1]

\* detect_motion: the returned pair and the detector's fields after the call
\* (cv2.absdiff raises on frames of different sizes; the except branch returns (True, 0))
detect_motion(frame) ==
    IF ~frame.ok
    THEN [has_motion |-> TRUE, motion_percent |-> Zero,
          prev_frame |-> prev_frame, frame_count |-> frame_count + 1]
    ELSE LET gray == Preprocess(frame.px) IN
         IF prev_frame = None
         THEN [has_motion |-> TRUE, motion_percent |-> Hundred,
               prev_frame |-> gray, frame_count |-> frame_count + 1]
         ELSE IF Len(prev_frame) # Len(gray)
         THEN [has_motion |-> TRUE, motion_percent |-> Zero,
               prev_frame |-> prev_frame, frame_count |-> frame_count + 1]
         ELSE LET motion_percent == MotionPercent(prev_frame, gray, threshold) IN
              [has_motion |-> HasMotion(motion_percent, min_change_percent),
               motion_percent |-> motion_percent,
               prev_frame |-> gray, frame_count |-> frame_count + 1]

----------------------------------------------------------------------------
(* FrameDeduplicator *)

\* _compute_hash: (gray > gray.mean()).flatten()
compute_hash(px) ==
    LET n == Len(px)
        total == SumSeq(px, n)
    IN  [i \in 1..n |-> px[i] * n > total]

\* _compare_hashes counting the bits that differ
compare_hashes_mismatches(hash1, hash2) ==
    IF Len(hash1) # Len(hash2) THEN Zero
    ELSE Frac(Cardinality({i \in 1..Len(hash1) : hash1[i] # hash2[i]}), Len(hash1))

\* _compare_hashes: matches / len(hash1), 0 when the lengths differ
compare_hashes(hash1, hash2) ==
    IF Len(hash1) # Len(hash2) THEN Zero
    ELSE Frac(Cardinality({i \in 1..Len(hash1) : hash1[i] = hash2[i]}), Len(hash1))

\* cv2.resize(frame, (64, 64)): a raster at the target width is returned as it is, a
\* single pixel is spread over the whole width
Resize(px) == IF Len(px) = NPixels THEN px ELSE [i \in 1..NPixels |-> px[1]]

\* is_duplicate keeping the stored hash when it reports a duplicate
is_duplicate_keeps_on_dup(frame) ==
    IF ~frame.ok
    THEN [is_dup |-> FALSE, similarity |-> Zero, prev_hash |-> prev_hash]
    ELSE LET current_hash == compute_hash(Resize(frame.px)) IN
         IF prev_hash = None
         THEN [is_dup |-> FALSE, similarity |-> Zero, prev_hash |-> current_hash]
         ELSE LET similarity == compare_hashes(prev_hash, current_hash)
                  is_dup == Geq(similarity, similarity_threshold)
              IN  [is_dup |-> is_dup,
                   similarity |-> similarity,
                   prev_hash |-> IF is_dup THEN prev_hash ELSE current_hash]

\* is_duplicate: the returned pair and prev_hash after the call
is_duplicate(frame) ==
    IF ~frame.ok
    THEN [is_dup |-> FALSE, similarity |-> Zero, prev_hash |-> prev_hash]
    ELSE LET current_hash == compute_hash(Resize(frame.px)) IN
         IF prev_hash = None
         THEN [is_dup |-> FALSE, similarity |-> Zero, prev_hash |-> current_hash]
         ELSE LET similarity == compare_hashes(prev_hash, current_hash) IN
              [is_dup |-> Geq(similarity, similarity_threshold),
               similarity |-> similarity,
               prev_hash |-> current_hash]

----------------------------------------------------------------------------
(* ThreatDetector *)

\* len(self.threat_patterns[category])
NCritical == 6
NHigh == 4
NMedium == 4
NNormal == 3

\* a text, as the number of patterns of each category that match it
Profile(c, h, m, n) == [critical |-> c, high |-> h, medium |-> m, normal |-> n]

AllTexts == {Profile(c, h, m, n) :
                c \in 0..NCritical, h \in 0..NHigh, m \in 0..NMedium, n \in 0..NNormal}

\* the descriptions the classifier returns in the pipeline runs:
\*   "a person in a uniform walks by", "an intruder with a knife breaks in"
Texts == {Profile(0, 0, 0, 1), Profile(2, 0, 0, 0)}

Max(a, b) == IF a >= b THEN a ELSE b
Min(a, b) == IF a <= b THEN a ELSE b

Repeat(x, k) == [i \in 1..k |-> x]

\* _get_threat_level with every boundary one score too high
get_threat_level_strict(score) ==
    IF score > 5 THEN "CRITICAL"
    ELSE IF score > 4 THEN "HIGH"
    ELSE IF score > 3 THEN "MEDIUM"
    ELSE IF score > 2 THEN "LOW"
    ELSE "NONE"

\* _get_threat_level
get_threat_level(score) ==
    IF score >= 5 THEN "CRITICAL"
    ELSE IF score >= 4 THEN "HIGH"
    ELSE IF score >= 3 THEN "MEDIUM"
    ELSE IF score >= 2 THEN "LOW"
    ELSE "NONE"

\* _calculate_confidence
calculate_confidence(threat_indicators, normal_indicators) ==
    LET c0 == BASE_CONFIDENCE
        c1 == IF threat_indicators > 0 THEN c0 + Min(threat_indicators * 15, 40) ELSE c0
        c2 == IF normal_indicators > 0 THEN c1 - Min(normal_indicators * 10, 30) ELSE c1
    IN  Max(10, Min(c2, 95))

\* _get_recommended_action
get_recommended_action(threat_level) ==
    CASE threat_level = "CRITICAL" -> "immediate_response"
      [] threat_level = "HIGH" -> "investigate_immediately"
      [] threat_level = "MEDIUM" -> "monitor_closely"
      [] threat_level = "LOW" -> "log_for_review"
      [] OTHER -> "none"

\* the normal-indicator reduction without its floor
ReducedScoreUnfloored(threat_score, normal_count) == threat_score - normal_count

\* threat_score = max(1, threat_score - normal_count)
ReducedScore(threat_score, normal_count) == Max(1, threat_score - normal_count)

\* the alert test with a strict comparison
ThreatDetectedStrict(threat_score, cfg_threshold) == threat_score > cfg_threshold

\* 'threat_detected': threat_score >= self.threshold
ThreatDetected(threat_score, cfg_threshold) == threat_score >= cfg_threshold

\* analyze_threat adding a category's severity for each of its matching patterns
analyze_threat_summed(text, cfg_threshold) ==
    LET s3 == 1 + 5 * text.critical + 4 * text.high + 3 * text.medium
        r3 == Repeat("Critical threat", text.critical)
                \o Repeat("High threat", text.high)
                \o Repeat("Medium threat", text.medium)
        normal_count == text.normal
        threat_score == IF normal_count > 0 THEN ReducedScore(s3, normal_count) ELSE s3
        threat_reasons == IF normal_count > 0
                          THEN Append(r3, "Normal activity indicators")
                          ELSE r3
        threat_level == get_threat_level(threat_score)
    IN  [classification |-> text,
         threat_detected |-> ThreatDetected(threat_score, cfg_threshold),
         threat_level |-> threat_level,
         threat_score |-> threat_score,
         threat_reasons |-> threat_reasons,
         confidence |-> calculate_confidence(Len(threat_reasons), normal_count),
         recommended_action |-> get_recommended_action(threat_level)]

\* analyze_threat, for a detector constructed with self.threshold = cfg_threshold
analyze_threat(text, cfg_threshold) ==
    LET s1 == IF text.critical > 0 THEN Max(1, 5) ELSE 1
        s2 == IF text.high > 0 THEN Max(s1, 4) ELSE s1
        s3 == IF text.medium > 0 THEN Max(s2, 3) ELSE s2
        r3 == Repeat("Critical threat", text.critical)
                \o Repeat("High threat", text.high)
                \o Repeat("Medium threat", text.medium)
        normal_count == text.normal
        threat_score == IF normal_count > 0 THEN ReducedScore(s3, normal_count) ELSE s3
        threat_reasons == IF normal_count > 0
                          THEN Append(r3, "Normal activity indicators")
                          ELSE r3
        threat_level == get_threat_level(threat_score)
    IN  [classification |-> text,
         threat_detected |-> ThreatDetected(threat_score, cfg_threshold),
         threat_level |-> threat_level,
         threat_score |-> threat_score,
         threat_reasons |-> threat_reasons,
         confidence |-> calculate_confidence(Len(threat_reasons), normal_count),
         recommended_action |-> get_recommended_action(threat_level)]

----------------------------------------------------------------------------
(* TelegramNotifier *)

\* what requests.post did: status 200, another status, or an exception
Posts == {"ok", "rejected", "exception"}

\* _should_debounce with the window closed at its end (<=)
should_debounce_inclusive(threat_level) ==
    IF last_alert_time[threat_level] # None
    THEN now - last_alert_time[threat_level][1] <= alert_cooldown_seconds
    ELSE FALSE

\* _should_debounce answering True for a level never sent
should_debounce_unrecorded(threat_level) ==
    IF last_alert_time[threat_level] # None
    THEN now - last_alert_time[threat_level][1] < alert_cooldown_seconds
    ELSE TRUE

\* _should_debounce
should_debounce(threat_level) ==
    IF last_alert_time[threat_level] # None
    THEN LET time_since_last == now - last_alert_time[threat_level][1]
         IN  time_since_last < alert_cooldown_seconds
    ELSE FALSE

\* _update_last_alert_time keeping one clock for all levels
update_last_alert_time_global(threat_level) ==
    [l \in DOMAIN last_alert_time |-> Some(now)]

\* _update_last_alert_time: the map after the call
update_last_alert_time(threat_level) ==
    [last_alert_time EXCEPT ![threat_level] = Some(now)]

\* _send_message
send_message(text_post) == text_post = "ok"

\* _send_photo, falling back to text only
send_photo(photo_post, text_post) ==
    IF photo_post = "ok" THEN TRUE ELSE send_message(text_post)

\* send_alert recording the time of every attempt, confirmed or not
send_alert_records_attempt(threat_analysis, net) ==
    IF ~TELEGRAM_ENABLED
    THEN [sent |-> FALSE, posted |-> FALSE, last_alert_time |-> last_alert_time]
    ELSE [sent |-> IF net.exists THEN send_photo(net.photo, net.text)
                   ELSE send_message(net.text),
          posted |-> TRUE,
          last_alert_time |-> update_last_alert_time(threat_analysis.threat_level)]

\* send_alert: the returned flag and the debounce map after the call
\* (net = [exists, photo, text]: whether the image file exists, and the posts' outcomes)
send_alert(threat_analysis, net) ==
    IF ~TELEGRAM_ENABLED
    THEN [sent |-> FALSE, posted |-> FALSE, last_alert_time |-> last_alert_time]
    ELSE [sent |-> IF net.exists THEN send_photo(net.photo, net.text)
                   ELSE send_message(net.text),
          posted |-> TRUE,
          last_alert_time |-> last_alert_time]

Nets == [exists : BOOLEAN, photo : Posts, text : Posts]

----------------------------------------------------------------------------
(* process_frame *)

\* what ImageClassifier.classify_image did: a description, or an exception
ClassifierErrors == {"API request timed out - try again"}
NoText == Profile(0, 0, 0, 0)
Classifications ==
    {[ok |-> TRUE, text |-> t, error |-> "None"] : t \in Texts}
    \cup {[ok |-> FALSE, text |-> NoText, error |-> e] : e \in ClassifierErrors}

SaveError == "[Errno 28] No space left on device"

ZeroStats == [total_frames |-> 0, skipped_no_motion |-> 0, skipped_duplicate |-> 0,
              processed |-> 0, threats_detected |-> 0, alerts_sent |-> 0,
              alerts_debounced |-> 0]

\* a counter stepping by two
IncByTwo(s, key) == [s EXCEPT ![key] = @ + 2]

\* state.stats[key] += 1
Inc(s, key) == [s EXCEPT ![key] = @ + 1]

\* the result dict as process_frame creates it
BlankResult == [success |-> FALSE, skipped |-> FALSE, skip_reason |-> "None",
                classification |-> None, threat_analysis |-> None,
                alert_sent |-> FALSE, alert_debounced |-> FALSE, error |-> "None",
                motion_percent |-> None, similarity |-> None]

MotionOut(m) == Some([has_motion |-> m.has_motion, motion_percent |-> m.motion_percent])
DedupOut(d) == Some([is_dup |-> d.is_dup, similarity |-> d.similarity])

\* what a path of process_frame leaves: counters, result, the collaborators it called,
\* the debounce map, and whether the transport confirmed a send
Outcome(st, res, calls, alerts, sent) ==
    [stats |-> st, result |-> res, invoked |-> calls, last_alert_time |-> alerts,
     sent |-> sent]

\* the no-motion return also counting the frame as processed
NoMotionPathCounted(st, m) ==
    Outcome(Inc(Inc(st, "skipped_no_motion"), "processed"),
            [BlankResult EXCEPT !.success = TRUE, !.skipped = TRUE,
                                !.skip_reason = "no_motion",
                                !.motion_percent = Some(m.motion_percent)],
            {"motion"}, last_alert_time, FALSE)

\* the early return of STEP 1: no motion
NoMotionPath(st, m) ==
    Outcome(Inc(st, "skipped_no_motion"),
            [BlankResult EXCEPT !.success = TRUE, !.skipped = TRUE,
                                !.skip_reason = "no_motion",
                                !.motion_percent = Some(m.motion_percent)],
            {"motion"}, last_alert_time, FALSE)

\* the duplicate return placed after optimization and classification
DuplicatePathClassified(st, d) ==
    Outcome(Inc(st, "skipped_duplicate"),
            [BlankResult EXCEPT !.success = TRUE, !.skipped = TRUE,
                                !.skip_reason = "duplicate",
                                !.similarity = Some(d.similarity)],
            {"motion", "dedup", "optimizer", "classifier"}, last_alert_time, FALSE)

\* the early return of STEP 2: duplicate
DuplicatePath(st, d) ==
    Outcome(Inc(st, "skipped_duplicate"),
            [BlankResult EXCEPT !.success = TRUE, !.skipped = TRUE,
                                !.skip_reason = "duplicate",
                                !.similarity = Some(d.similarity)],
            {"motion", "dedup"}, last_alert_time, FALSE)

\* the except branch leaving result['error'] unset
FailedResultUnreported(res, error_msg) == res

\* the except branch reporting success
FailedResultAsSuccess(res, error_msg) == [res EXCEPT !.success = TRUE, !.error = error_msg]

\* the except branch: the result as it stood when the exception was raised
FailedResult(res, error_msg) == [res EXCEPT !.error = error_msg]

\* STEP 6 without the test of Config.TELEGRAM_ENABLED
Step6AlertUngated(threat_analysis, image_net, st, res, calls) ==
    LET alert == send_alert(threat_analysis, image_net) IN
    IF alert.sent
    THEN Outcome(Inc(st, "alerts_sent"), [res EXCEPT !.alert_sent = TRUE],
                 calls \cup {"notifier"}, alert.last_alert_time, TRUE)
    ELSE IF should_debounce(threat_analysis.threat_level)
    THEN Outcome(Inc(st, "alerts_debounced"), [res EXCEPT !.alert_debounced = TRUE],
                 calls \cup {"notifier", "cooldown"}, alert.last_alert_time, FALSE)
    ELSE Outcome(st, res, calls \cup {"notifier", "cooldown"}, alert.last_alert_time,
                 FALSE)

\* STEP 6 counting a confirmed send as debounced too when the level is in its cooldown
Step6AlertCountsBoth(threat_analysis, image_net, st, res, calls) ==
    IF TELEGRAM_ENABLED
    THEN LET alert == send_alert(threat_analysis, image_net)
             debounced == should_debounce(threat_analysis.threat_level)
             st1 == IF alert.sent THEN Inc(st, "alerts_sent") ELSE st
             st2 == IF debounced THEN Inc(st1, "alerts_debounced") ELSE st1
         IN  Outcome(st2,
                     [res EXCEPT !.alert_sent = alert.sent, !.alert_debounced = debounced],
                     calls \cup {"notifier", "cooldown"}, alert.last_alert_time,
                     alert.sent)
    ELSE Outcome(st, res, calls, last_alert_time, FALSE)

\* STEP 6: the alert branch, for a detected threat ("cooldown" among the calls: the
\* debounce map was consulted through _should_debounce)
Step6Alert(threat_analysis, image_net, st, res, calls) ==
    IF TELEGRAM_ENABLED
    THEN LET alert == send_alert(threat_analysis, image_net) IN
         IF alert.sent
         THEN Outcome(Inc(st, "alerts_sent"), [res EXCEPT !.alert_sent = TRUE],
                      calls \cup {"notifier"}, alert.last_alert_time, TRUE)
         ELSE IF should_debounce(threat_analysis.threat_level)
         THEN Outcome(Inc(st, "alerts_debounced"), [res EXCEPT !.alert_debounced = TRUE],
                      calls \cup {"notifier", "cooldown"}, alert.last_alert_time, FALSE)
         ELSE Outcome(st, res, calls \cup {"notifier", "cooldown"},
                      alert.last_alert_time, FALSE)
    ELSE Outcome(st, res, calls, last_alert_time, FALSE)

\* STEPS 3 to 6, for a frame both gates let through. `optimized`: the optimizer wrote a
\* compressed copy and returned its path; the calls then record the writing of the copy
\* ("save_copy") and, where line 196 is reached, its deletion ("unlink_copy")
Analyze(optimized, classified, saved, image_net, st) ==
    LET calls == {"motion", "dedup", "optimizer", "classifier"}
                 \cup (IF optimized THEN {"save_copy"} ELSE {})
        cleanup == IF optimized THEN {"unlink_copy"} ELSE {}
    IN
    IF ~classified.ok
    THEN Outcome(st, FailedResult(BlankResult, classified.error), calls,
                 last_alert_time, FALSE)
    ELSE IF ~saved
    THEN Outcome(st,
                 FailedResult([BlankResult EXCEPT !.classification = Some(classified.text)],
                              SaveError),
                 calls, last_alert_time, FALSE)
    ELSE LET threat_analysis == analyze_threat(classified.text, THREAT_THRESHOLD)
             st1 == Inc(st, "processed")
             res == [BlankResult EXCEPT !.classification = Some(classified.text),
                                        !.threat_analysis = Some(threat_analysis),
                                        !.success = TRUE]
         IN  IF threat_analysis.threat_detected
             THEN Step6Alert(threat_analysis, image_net, Inc(st1, "threats_detected"),
                             res, calls \cup {"scorer"} \cup cleanup)
             ELSE Outcome(st1, res, calls \cup {"scorer"} \cup cleanup, last_alert_time,
                          FALSE)

\* process_frame running the duplicate gate before it looks at the motion verdict
process_frame_dedup_first(frame, optimized, classified, saved, image_net) ==
    LET st0 == Inc(stats, "total_frames")
        m == detect_motion(frame)
        d == is_duplicate(frame)
    IN  IF ~m.has_motion
        THEN [motion |-> m, dedup |-> None, prev_hash |-> d.prev_hash]
             @@ NoMotionPath(st0, m)
        ELSE LET gated == [motion |-> m, dedup |-> DedupOut(d), prev_hash |-> d.prev_hash]
             IN  IF d.is_dup
                 THEN gated @@ DuplicatePath(st0, d)
                 ELSE gated @@ Analyze(optimized, classified, saved, image_net, st0)

\* process_frame undoing the duplicate gate's update when the classification fails
process_frame_rollback_on_failure(frame, optimized, classified, saved, image_net) ==
    LET st0 == Inc(stats, "total_frames")
        m == detect_motion(frame)
    IN  IF ~m.has_motion
        THEN [motion |-> m, dedup |-> None, prev_hash |-> prev_hash]
             @@ NoMotionPath(st0, m)
        ELSE LET d == is_duplicate(frame)
                 gated == [motion |-> m, dedup |-> DedupOut(d), prev_hash |-> d.prev_hash]
                 failed == [motion |-> m, dedup |-> DedupOut(d), prev_hash |-> prev_hash]
             IN  IF d.is_dup
                 THEN gated @@ DuplicatePath(st0, d)
                 ELSE IF ~classified.ok
                 THEN failed @@ Analyze(optimized, classified, saved, image_net, st0)
                 ELSE gated @@ Analyze(optimized, classified, saved, image_net, st0)

\* process_frame: everything one call returns and leaves behind
process_frame(frame, optimized, classified, saved, image_net) ==
    LET st0 == Inc(stats, "total_frames")
        m == detect_motion(frame)
    IN  IF ~m.has_motion
        THEN [motion |-> m, dedup |-> None, prev_hash |-> prev_hash]
             @@ NoMotionPath(st0, m)
        ELSE LET d == is_duplicate(frame)
                 gated == [motion |-> m, dedup |-> DedupOut(d), prev_hash |-> d.prev_hash]
             IN  IF d.is_dup
                 THEN gated @@ DuplicatePath(st0, d)
                 ELSE gated @@ Analyze(optimized, classified, saved, image_net, st0)

----------------------------------------------------------------------------
(* State machine of the program: process_frame calls, the two resets, the clock *)

NoAlerts == [l \in Levels |-> None]

Trace(op, frame, motion, dedup, invoked, level, verdict) ==
    [op |-> op, frame |-> frame, motion |-> motion, dedup |-> dedup,
     invoked |-> invoked, level |-> level, verdict |-> verdict]

IdleTrace(op) == Trace(op, Undecodable, None, None, {}, "None", FALSE)

\* the module as imported: state = ProcessingState() has run once (ProcessingState.__new__),
\* and the class attributes of TelegramNotifier
Init ==
    /\ prev_frame = None
    /\ frame_count = 0
    /\ threshold = MOTION_THRESHOLD
    /\ min_change_percent = Frac(1, 2)
    /\ prev_hash = None
    /\ similarity_threshold = Frac(95, 100)
    /\ stats = ZeroStats
    /\ last_alert_time = NoAlerts
    /\ alert_cooldown_seconds = ALERT_COOLDOWN_DEFAULT
    /\ TELEGRAM_ENABLED \in BOOLEAN
    /\ THREAT_THRESHOLD = THREAT_THRESHOLD_DEFAULT
    /\ now = 0
    /\ result = None
    /\ trace = IdleTrace("init")
    /\ confirmed = NoAlerts
    /\ instance = 1

\* the collaborators' outcomes a call on `frame` consumes: none when a gate skips the
\* frame, the transport's only when an alert is due
ReachesClassifier(frame) ==
    LET m == detect_motion(frame) IN m.has_motion /\ ~is_duplicate(frame).is_dup
ReachesNotifier(text) ==
    TELEGRAM_ENABLED /\ analyze_threat(text, THREAT_THRESHOLD).threat_detected
QuietNet == [exists |-> TRUE, photo |-> "ok", text |-> "ok"]
\* (optimized = FALSE: the frame files are below the optimizer's max_size_kb, and
\* ImageOptimizer.optimize returns the path it was given)
Env(classified, saved, image_net) ==
    [optimized |-> FALSE, classified |-> classified, saved |-> saved,
     image_net |-> image_net]
Envs(frame) ==
    IF ~ReachesClassifier(frame)
    THEN {Env([ok |-> TRUE, text |-> NoText, error |-> "None"], TRUE, QuietNet)}
    ELSE {Env(c, TRUE, QuietNet) : c \in {k \in Classifications : ~k.ok}}
         \cup {Env(c, FALSE, QuietNet) : c \in {k \in Classifications : k.ok}}
         \cup {Env(c, TRUE, n) : c \in {k \in Classifications : k.ok /\ ~ReachesNotifier(k.text)},
                                 n \in {QuietNet}}
         \cup {Env(c, TRUE, n) : c \in {k \in Classifications : k.ok /\ ReachesNotifier(k.text)},
                                 n \in Nets}

\* one process_frame(image_path) call, with the state it leaves behind
ProcessFrameCall(frame, env) ==
    /\ \E out \in {process_frame(frame, env.optimized, env.classified, env.saved,
                                  env.image_net)} :
         \E level \in {IF out.result.threat_analysis = None THEN "None"
                       ELSE out.result.threat_analysis[1].threat_level} :
           /\ prev_frame' = out.motion.prev_frame
           /\ frame_count' = out.motion.frame_count
           /\ prev_hash' = out.prev_hash
           /\ stats' = out.stats
           /\ last_alert_time' = out.last_alert_time
           /\ result' = Some(out.result)
           /\ trace' = Trace("process_frame", frame, MotionOut(out.motion), out.dedup,
                             out.invoked, level, FALSE)
           /\ confirmed' = IF out.sent THEN [confirmed EXCEPT ![level] = Some(now)]
                           ELSE confirmed
    /\ UNCHANGED <<threshold, min_change_percent, similarity_threshold,
                   alert_cooldown_seconds, configVars, now>>

ProcessFrame(frame, env) ==
    /\ stats.total_frames < MaxFrames
    /\ ProcessFrameCall(frame, env)

\* ProcessingState.reset clearing the notifier's recorded times as well
ResetAlsoCooldown ==
    /\ prev_frame' = None
    /\ frame_count' = 0
    /\ prev_hash' = None
    /\ stats' = ZeroStats
    /\ last_alert_time' = NoAlerts
    /\ trace' = IdleTrace("reset")
    /\ UNCHANGED <<threshold, min_change_percent, similarity_threshold,
                   alert_cooldown_seconds, configVars, now, result, confirmed>>

\* ProcessingState.reset leaving the deduplicator's stored hash in place
ResetKeepsHash ==
    /\ prev_frame' = None
    /\ frame_count' = 0
    /\ stats' = ZeroStats
    /\ trace' = IdleTrace("reset")
    /\ UNCHANGED <<threshold, min_change_percent, dedupVars, last_alert_time,
                   alert_cooldown_seconds, configVars, now, result, confirmed>>

\* ProcessingState.reset (MotionDetector.reset, FrameDeduplicator.reset, fresh stats)
Reset ==
    /\ prev_frame' = None
    /\ frame_count' = 0
    /\ prev_hash' = None
    /\ stats' = ZeroStats
    /\ trace' = IdleTrace("reset")
    /\ UNCHANGED <<threshold, min_change_percent, similarity_threshold, last_alert_time,
                   alert_cooldown_seconds, configVars, now, result, confirmed>>

\* TelegramNotifier.reset_cooldown
ResetCooldown ==
    /\ last_alert_time' = NoAlerts
    /\ confirmed' = NoAlerts
    /\ trace' = IdleTrace("reset_cooldown")
    /\ UNCHANGED <<motionVars, dedupVars, stats, alert_cooldown_seconds, configVars,
                   now, result>>

\* the wall clock advances between calls
Elapse ==
    /\ now + TickSeconds <= MaxTime
    /\ now' = now + TickSeconds
    /\ UNCHANGED <<motionVars, dedupVars, stats, last_alert_time, alert_cooldown_seconds,
                   configVars, result, trace, confirmed>>

Next ==
    \/ \E frame \in Frames : \E env \in Envs(frame) : ProcessFrame(frame, env)
    \/ Reset
    \/ ResetCooldown
    \/ Elapse

Spec == Init /\ [][Next]_vars

----------------------------------------------------------------------------
(* The two gates on their own: MotionDetector and FrameDeduplicator objects built *)
(* with any of the configurations below and called directly                       *)

MinChangePercents == {Zero, Frac(1, 2), Frac(50, 1)}
SimilarityThresholds == {Zero, Frac(95, 100), One, Frac(3, 2)}

InitGates ==
    /\ prev_frame = None
    /\ frame_count = 0
    /\ threshold = MOTION_THRESHOLD
    /\ min_change_percent \in MinChangePercents
    /\ prev_hash = None
    /\ similarity_threshold \in SimilarityThresholds
    /\ stats = ZeroStats
    /\ last_alert_time = NoAlerts
    /\ alert_cooldown_seconds = ALERT_COOLDOWN_DEFAULT
    /\ TELEGRAM_ENABLED = TRUE
    /\ THREAT_THRESHOLD = THREAT_THRESHOLD_DEFAULT
    /\ now = 0
    /\ result = None
    /\ trace = IdleTrace("init")
    /\ confirmed = NoAlerts
    /\ instance = 1

restOfGates == <<stats, last_alert_time, alert_cooldown_seconds, configVars, now, result,
                 confirmed>>

\* MotionDetector.detect_motion(image_path)
DetectMotionCall(frame) ==
    /\ frame_count < MaxFrames
    /\ \E m \in {detect_motion(frame)} :
         /\ prev_frame' = m.prev_frame
         /\ frame_count' = m.frame_count
         /\ trace' = Trace("detect_motion", frame, MotionOut(m), None, {"motion"},
                           "None", FALSE)
    /\ UNCHANGED <<threshold, min_change_percent, dedupVars, restOfGates>>

\* FrameDeduplicator.is_duplicate(image_path)
IsDuplicateCall(frame) ==
    /\ \E d \in {is_duplicate(frame)} :
         /\ prev_hash' = d.prev_hash
         /\ trace' = Trace("is_duplicate", frame, None, DedupOut(d), {"dedup"},
                           "None", FALSE)
    /\ UNCHANGED <<motionVars, similarity_threshold, restOfGates>>

\* MotionDetector.reset
MotionReset ==
    /\ prev_frame' = None
    /\ frame_count' = 0
    /\ trace' = IdleTrace("motion_reset")
    /\ UNCHANGED <<threshold, min_change_percent, dedupVars, restOfGates>>

\* FrameDeduplicator.reset
DedupReset ==
    /\ prev_hash' = None
    /\ trace' = IdleTrace("dedup_reset")
    /\ UNCHANGED <<motionVars, similarity_threshold, restOfGates>>

NextGates ==
    \/ \E frame \in GateFrames : DetectMotionCall(frame)
    \/ \E frame \in GateFrames : IsDuplicateCall(frame)
    \/ MotionReset
    \/ DedupReset

SpecGates == InitGates /\ [][NextGates]_vars

----------------------------------------------------------------------------
(* The notifier's cooldown bookkeeping on its own: the TelegramNotifier methods *)
(* called directly, with the clock advancing second by second                   *)

AlertLevels == {"MEDIUM", "HIGH"}
Cooldowns == {5, ALERT_COOLDOWN_DEFAULT}

restOfNotifier == <<motionVars, dedupVars, stats, configVars, result, confirmed>>

\* TelegramNotifier._update_last_alert_time(threat_level)
UpdateLastAlertTime(threat_level) ==
    /\ last_alert_time' = update_last_alert_time(threat_level)
    /\ trace' = Trace("update_last_alert_time", Undecodable, None, None, {},
                      threat_level, FALSE)
    /\ UNCHANGED <<alert_cooldown_seconds, now, restOfNotifier>>

\* TelegramNotifier._should_debounce(threat_level)
ShouldDebounceCall(threat_level) ==
    /\ trace' = Trace("should_debounce", Undecodable, None, None, {},
                      threat_level, should_debounce(threat_level))
    /\ UNCHANGED <<last_alert_time, alert_cooldown_seconds, now, restOfNotifier>>

\* TelegramNotifier.set_cooldown(seconds)
SetCooldown(seconds) ==
    /\ alert_cooldown_seconds' = seconds
    /\ trace' = IdleTrace("set_cooldown")
    /\ UNCHANGED <<last_alert_time, now, restOfNotifier>>

\* one second passes
Tick ==
    /\ now < MaxTime
    /\ now' = now + 1
    /\ UNCHANGED <<last_alert_time, alert_cooldown_seconds, trace, restOfNotifier>>

NextNotifier ==
    \/ \E threat_level \in AlertLevels : UpdateLastAlertTime(threat_level)
    \/ \E threat_level \in AlertLevels : ShouldDebounceCall(threat_level)
    \/ \E seconds \in Cooldowns : SetCooldown(seconds)
    \/ ResetCooldown
    \/ Tick

\* the class attributes of TelegramNotifier as the module is imported
InitNotifier == Init /\ TELEGRAM_ENABLED

SpecNotifier == InitNotifier /\ [][NextNotifier]_vars

----------------------------------------------------------------------------
(* The two reset paths side by side: the pipeline and its stream-restart reset, *)
(* with the notifier's record and reset methods called directly                 *)

\* TelegramNotifier._update_last_alert_time(threat_level), called between frames
RecordAlertTime(threat_level) ==
    /\ last_alert_time' = update_last_alert_time(threat_level)
    /\ trace' = Trace("update_last_alert_time", Undecodable, None, None, {},
                      threat_level, FALSE)
    /\ UNCHANGED <<alert_cooldown_seconds, now, restOfNotifier>>

\* the levels a send time is recorded for: the one the pipeline's texts alert on, and
\* another
RecordedLevels == {"HIGH", "CRITICAL"}

NextResets ==
    \/ \E frame \in Frames : \E env \in Envs(frame) : ProcessFrame(frame, env)
    \/ Reset
    \/ ResetCooldown
    \/ \E threat_level \in RecordedLevels : RecordAlertTime(threat_level)

SpecResets == Init /\ [][NextResets]_vars

----------------------------------------------------------------------------
(* One camera stream with dispatching disabled: frames of either resolution,   *)
(* large enough or not for the optimizer to write a compressed copy, one frame *)
(* more per session than in the program's state machine above                  *)

\* the outcomes of Envs, with the optimizer's where the frame reaches it: a readable
\* file is above max_size_kb or not; on an unreadable one Image.open raises and
\* optimize returns the path it was given
StreamEnvs(frame) ==
    {[env EXCEPT !.optimized = o] :
        env \in Envs(frame),
        o \in IF frame.ok /\ ReachesClassifier(frame) THEN BOOLEAN ELSE {FALSE}}

StreamFrame(frame, env) ==
    /\ stats.total_frames <= MaxFrames
    /\ ProcessFrameCall(frame, env)

InitStream == Init /\ ~TELEGRAM_ENABLED

NextStream ==
    \/ \E frame \in GateFrames : \E env \in StreamEnvs(frame) : StreamFrame(frame, env)
    \/ Reset

SpecStream == InitStream /\ [][NextStream]_vars

----------------------------------------------------------------------------
(* The session singleton: the module from its class statement on, ProcessingState() *)
(* constructed any number of times between the calls of one stream                  *)

\* ProcessingState.__new__ building a new object on every construction
ProcessingState_new_fresh(inst) ==
    [instance |-> inst + 1,
     prev_frame |-> None, frame_count |-> 0,
     threshold |-> MOTION_THRESHOLD, min_change_percent |-> Frac(1, 2),
     prev_hash |-> None, similarity_threshold |-> Frac(95, 100),
     stats |-> ZeroStats]

\* ProcessingState.__new__: the object cls._instance refers to after the call, and the
\* fields of that object
ProcessingState_new(inst) ==
    IF inst = 0
    THEN [instance |-> inst + 1,
          prev_frame |-> None, frame_count |-> 0,
          threshold |-> MOTION_THRESHOLD, min_change_percent |-> Frac(1, 2),
          prev_hash |-> None, similarity_threshold |-> Frac(95, 100),
          stats |-> ZeroStats]
    ELSE [instance |-> inst,
          prev_frame |-> prev_frame, frame_count |-> frame_count,
          threshold |-> threshold, min_change_percent |-> min_change_percent,
          prev_hash |-> prev_hash, similarity_threshold |-> similarity_threshold,
          stats |-> stats]

\* ProcessingState()
Construct ==
    /\ \E obj \in {ProcessingState_new(instance)} :
         /\ instance' = obj.instance
         /\ prev_frame' = obj.prev_frame
         /\ frame_count' = obj.frame_count
         /\ threshold' = obj.threshold
         /\ min_change_percent' = obj.min_change_percent
         /\ prev_hash' = obj.prev_hash
         /\ similarity_threshold' = obj.similarity_threshold
         /\ stats' = obj.stats
    /\ trace' = IdleTrace("construct")
    /\ UNCHANGED <<last_alert_time, alert_cooldown_seconds, TELEGRAM_ENABLED,
                   THREAT_THRESHOLD, now, result, confirmed>>

\* process_frame(image_path), once the module-level `state` exists
SessionFrame(frame, env) ==
    /\ instance # 0
    /\ ProcessFrame(frame, env)

\* ProcessingState.reset(): `if cls._instance:`
SessionReset ==
    /\ instance # 0
    /\ Reset

\* after the class statement, before line 62 constructs the object (whose fields are
\* shown with the values the first construction gives them); dispatching disabled
InitSingleton ==
    /\ prev_frame = None
    /\ frame_count = 0
    /\ threshold = MOTION_THRESHOLD
    /\ min_change_percent = Frac(1, 2)
    /\ prev_hash = None
    /\ similarity_threshold = Frac(95, 100)
    /\ stats = ZeroStats
    /\ last_alert_time = NoAlerts
    /\ alert_cooldown_seconds = ALERT_COOLDOWN_DEFAULT
    /\ TELEGRAM_ENABLED = FALSE
    /\ THREAT_THRESHOLD = THREAT_THRESHOLD_DEFAULT
    /\ now = 0
    /\ result = None
    /\ trace = IdleTrace("class")
    /\ confirmed = NoAlerts
    /\ instance = 0

NextSingleton ==
    \/ Construct
    \/ \E frame \in Frames : \E env \in Envs(frame) : SessionFrame(frame, env)
    \/ SessionReset

SpecSingleton == InitSingleton /\ [][NextSingleton]_vars

----------------------------------------------------------------------------
(* The threat scorer on its own: a ThreatDetector built under any configured *)
(* threshold and given any classification text                               *)

\* int(os.getenv('THREAT_THRESHOLD', 3))
ThreatThresholds == 0..6

InitScorer ==
    /\ prev_frame = None
    /\ frame_count = 0
    /\ threshold = MOTION_THRESHOLD
    /\ min_change_percent = Frac(1, 2)
    /\ prev_hash = None
    /\ similarity_threshold = Frac(95, 100)
    /\ stats = ZeroStats
    /\ last_alert_time = NoAlerts
    /\ alert_cooldown_seconds = ALERT_COOLDOWN_DEFAULT
    /\ TELEGRAM_ENABLED = TRUE
    /\ THREAT_THRESHOLD \in ThreatThresholds
    /\ now = 0
    /\ result = None
    /\ trace = IdleTrace("init")
    /\ confirmed = NoAlerts
    /\ instance = 1

\* ThreatDetector().analyze_threat(classification_text): result holds the analysis
AnalyzeThreatCall(text) ==
    /\ result' = Some(analyze_threat(text, THREAT_THRESHOLD))
    /\ trace' = IdleTrace("analyze_threat")
    /\ UNCHANGED <<motionVars, dedupVars, stats, last_alert_time, alert_cooldown_seconds,
                   configVars, now, confirmed>>

NextScorer == \E text \in AllTexts : AnalyzeThreatCall(text)

SpecScorer == InitScorer /\ [][NextScorer]_vars

----------------------------------------------------------------------------
(* Properties *)

\* a step that is one process_frame call
CallStep == stats'.total_frames = stats.total_frames + 1

\* the result the last process_frame call returned
Res == result[1]

ThreatFound(res) ==
    res.threat_analysis # None /\ res.threat_analysis[1].threat_detected

\* C1: in a call that detects a threat with dispatching enabled, if a send of the same
\* level was confirmed less than the cooldown ago the notifier is not invoked,
\* alerts_debounced goes up by one and the result is marked alert_debounced; otherwise
\* the notifier is invoked.
C1_RepeatIsDebounced ==
    [][(CallStep /\ TELEGRAM_ENABLED /\ ThreatFound(result'[1])) =>
        LET level == trace'.level IN
        IF confirmed[level] # None /\ now - confirmed[level][1] < alert_cooldown_seconds
        THEN /\ "notifier" \notin trace'.invoked
             /\ stats'.alerts_debounced = stats.alerts_debounced + 1
             /\ result'[1].alert_debounced
             /\ ~result'[1].alert_sent
        ELSE "notifier" \in trace'.invoked]_vars

\* C2: a call in which the transport confirmed the send for level L leaves that send's
\* time in the debounce map under L; any other call leaves the map as it was.
C2_ConfirmedSendRecorded ==
    [][CallStep =>
        IF result'[1].alert_sent
        THEN last_alert_time' = [last_alert_time EXCEPT ![trace'.level] = Some(now)]
        ELSE last_alert_time' = last_alert_time]_vars

\* a step that is one _should_debounce query
QueryStep == trace'.op = "should_debounce" /\ trace' # trace

\* C3: a send for a level is permitted iff no time is recorded for it or at least the
\* cooldown has elapsed since the recorded time; with cooldown 10, a level recorded at
\* t0 is suppressed at t0+5 and permitted at t0+10 and t0+11.
C3_DebounceVerdict ==
    [][QueryStep =>
        LET level == trace'.level
            permitted == ~trace'.verdict
            last == last_alert_time[level]
        IN  /\ permitted <=> (last = None \/ now - last[1] >= alert_cooldown_seconds)
            /\ (alert_cooldown_seconds = ALERT_COOLDOWN_DEFAULT /\ last # None) =>
                  /\ now = last[1] + 5 => ~permitted
                  /\ now = last[1] + ALERT_COOLDOWN_DEFAULT => permitted
                  /\ now = last[1] + ALERT_COOLDOWN_DEFAULT + 1 => permitted]_vars

\* C3 witness: a query answered "permitted" exactly one cooldown after the recorded send
C3_Witness ==
    /\ trace.op = "should_debounce"
    /\ ~trace.verdict
    /\ alert_cooldown_seconds = ALERT_COOLDOWN_DEFAULT
    /\ last_alert_time[trace.level] # None
    /\ now = last_alert_time[trace.level][1] + ALERT_COOLDOWN_DEFAULT

\* a step that records a send time
RecordStep == trace'.op = "update_last_alert_time" /\ last_alert_time' # last_alert_time

\* C4: recording a send for level L changes only L's entry of the debounce map and
\* leaves the debounce verdict of every other level, and the shared cooldown, as before.
C4_LevelsIndependent ==
    [][RecordStep =>
        /\ alert_cooldown_seconds' = alert_cooldown_seconds
        /\ \A other \in Levels \ {trace'.level} :
              /\ last_alert_time'[other] = last_alert_time[other]
              /\ should_debounce(other)' = should_debounce(other)]_vars

\* C4 witness: HIGH was just recorded and is suppressed while MEDIUM, never sent, is not
C4_Witness ==
    /\ trace.op = "update_last_alert_time"
    /\ trace.level = "HIGH"
    /\ last_alert_time["HIGH"] = Some(now)
    /\ last_alert_time["MEDIUM"] = None
    /\ should_debounce("HIGH")
    /\ ~should_debounce("MEDIUM")

\* C5: a call whose classification fails returns success = false with a non-empty error
\* text and changes no counter except total_frames, which keeps its increment.
C5_ClassifierFailure ==
    [][(CallStep /\ "classifier" \in trace'.invoked /\ result'[1].classification = None) =>
        /\ ~result'[1].success
        /\ result'[1].error \notin {"None", ""}
        /\ stats' = [stats EXCEPT !.total_frames = @ + 1]]_vars

\* C5 witness: the only call so far failed in the classifier
C5_Witness ==
    /\ trace.op = "process_frame"
    /\ "classifier" \in trace.invoked
    /\ Res.error \in ClassifierErrors
    /\ stats = [ZeroStats EXCEPT !.total_frames = 1]

\* C6: a call in which the notifier was invoked and the send failed still returns
\* success = true, with alert_sent and alert_debounced false and neither alert counter
\* incremented.
C6_FailedAlertNonFatal ==
    [][(CallStep /\ "notifier" \in trace'.invoked /\ ~result'[1].alert_sent) =>
        /\ result'[1].success
        /\ ~result'[1].alert_debounced
        /\ stats'.alerts_sent = stats.alerts_sent
        /\ stats'.alerts_debounced = stats.alerts_debounced]_vars

\* C6 witness: a threat was found, the notifier was invoked and the send failed
C6_Witness ==
    /\ trace.op = "process_frame"
    /\ "notifier" \in trace.invoked
    /\ ThreatFound(Res)
    /\ ~Res.alert_sent
    /\ Res.success
    /\ stats.threats_detected > stats.alerts_sent

\* C7: a frame without motion (resp. a duplicate) returns success, skipped, reason
\* "no_motion" (resp. "duplicate"); the call increments only total_frames and that
\* gate's skip counter and calls neither optimizer, classifier nor notifier; without
\* motion the duplicate gate is not evaluated.
C7_EarlyReturn ==
    [][CallStep =>
        /\ ~trace'.motion[1].has_motion =>
              /\ result'[1].success /\ result'[1].skipped
              /\ result'[1].skip_reason = "no_motion"
              /\ stats' = [stats EXCEPT !.total_frames = @ + 1, !.skipped_no_motion = @ + 1]
              /\ trace'.invoked = {"motion"}
              /\ trace'.dedup = None
              /\ prev_hash' = prev_hash
        /\ (trace'.dedup # None /\ trace'.dedup[1].is_dup) =>
              /\ result'[1].success /\ result'[1].skipped
              /\ result'[1].skip_reason = "duplicate"
              /\ stats' = [stats EXCEPT !.total_frames = @ + 1, !.skipped_duplicate = @ + 1]
              /\ trace'.invoked = {"motion", "dedup"}]_vars

\* C7 witness: the second frame of the session was skipped for no motion
C7_Witness ==
    /\ trace.op = "process_frame"
    /\ Res.skipped /\ Res.skip_reason = "no_motion"
    /\ stats.total_frames = 2 /\ stats.skipped_no_motion = 1

\* a step that is one detect_motion call
MotionCallStep == frame_count' = frame_count + 1

\* a detect_motion call on a decodable frame with nothing stored returns (true, 100.0)
\* and stores the frame
BootstrapFrame ==
    (MotionCallStep /\ trace'.frame.ok /\ prev_frame = None) =>
        /\ trace'.motion = Some([has_motion |-> TRUE, motion_percent |-> Hundred])
        /\ prev_frame' = Preprocess(trace'.frame.px)

\* the call is on a decodable frame equal to the stored one
SameAsStored ==
    /\ MotionCallStep /\ trace'.frame.ok /\ prev_frame # None
    /\ Preprocess(trace'.frame.px) = prev_frame

\* C8 as stated: the first decodable frame yields (true, 100.0) and is stored; a frame
\* identical to the stored one yields has_motion = false, for every configured
\* minimum-change percentage.
C8_IdenticalNeverMotion ==
    [][BootstrapFrame /\ (SameAsStored => ~trace'.motion[1].has_motion)]_vars

\* C8 amended: the first decodable frame yields (true, 100.0) and is stored; a frame
\* identical to the stored one yields has_motion = false, for every configured
\* minimum-change percentage above 0.
C8_IdenticalNoMotionAboveZero ==
    [][/\ BootstrapFrame
       /\ (SameAsStored /\ Less(Zero, min_change_percent)) =>
             /\ ~trace'.motion[1].has_motion
             /\ trace'.motion[1].motion_percent = Zero]_vars

\* C8 witness: a second frame, equal to the stored one, reported no motion
C8_Witness ==
    /\ trace.op = "detect_motion"
    /\ trace.frame.ok
    /\ frame_count >= 2
    /\ Less(Zero, min_change_percent)
    /\ trace.motion = Some([has_motion |-> FALSE, motion_percent |-> Zero])

\* what both gates return for an undecodable frame, and where the frame goes
FailsOpen ==
    /\ trace'.motion = Some([has_motion |-> TRUE, motion_percent |-> Zero])
    /\ trace'.dedup = Some([is_dup |-> FALSE, similarity |-> Zero])
    /\ prev_hash' = prev_hash
    /\ {"optimizer", "classifier"} \subseteq trace'.invoked

\* C9 as stated: on an undecodable frame detect_motion returns (true, 0) and leaves all
\* of the detector's state as it was, is_duplicate returns (false, 0) and leaves the
\* stored hash unchanged, and the frame proceeds to optimization and classification.
C9_FailOpenNoMutation ==
    [][(CallStep /\ ~trace'.frame.ok) => (FailsOpen /\ UNCHANGED motionVars)]_vars

\* C9 amended: as stated, except that of the detector's state it is the stored frame
\* and the two tunables that are left as they were; frame_count goes up by one.
C9_FailOpenKeepsHistory ==
    [][(CallStep /\ ~trace'.frame.ok) =>
        /\ FailsOpen
        /\ UNCHANGED <<prev_frame, threshold, min_change_percent>>
        /\ frame_count' = frame_count + 1]_vars

\* C9 witness: an undecodable frame went through to the classifier with history stored
C9_Witness ==
    /\ trace.op = "process_frame"
    /\ ~trace.frame.ok
    /\ prev_frame # None /\ prev_hash # None
    /\ "classifier" \in trace.invoked

\* C10: when is_duplicate is given the decodable frame it was given just before, it
\* returns similarity 1.0, and is_duplicate = true for every threshold <= 1.0.
C10_IdenticalIsDuplicate ==
    [][(/\ trace.op = "is_duplicate" /\ trace.frame.ok
        /\ trace'.op = "is_duplicate" /\ trace'.frame = trace.frame
        /\ trace' # trace) =>
        /\ trace'.dedup[1].similarity = One
        /\ Geq(One, similarity_threshold) => trace'.dedup[1].is_dup]_vars

\* C10 witness: the same frame twice in a row, reported a duplicate at threshold 1.0
C10_Witness ==
    /\ trace.op = "is_duplicate"
    /\ trace.frame.ok
    /\ similarity_threshold = One
    /\ trace.dedup = Some([is_dup |-> TRUE, similarity |-> One])

----------------------------------------------------------------------------
(* Properties of the threat scorer *)

\* the last operation was an analyze_threat call; result holds what it returned
Scored == trace.op = "analyze_threat"
Analysis == result[1]
Scanned == Analysis.classification

\* the number of critical, high and medium patterns the analysed text matches
ThreatMatches == Scanned.critical + Scanned.high + Scanned.medium

\* C11: for every input text analyze_threat returns a threat_score within 1..5, however
\* many threat patterns and however many normal-indicator patterns match.
C11_ScoreInRange == Scored => Analysis.threat_score \in 1..5

\* C11 witness: a text matching medium patterns only and every normal pattern, whose
\* reduction 3 - 3 is held at the floor
C11_Witness ==
    /\ Scored
    /\ Scanned.critical = 0 /\ Scanned.high = 0 /\ Scanned.medium > 0
    /\ Scanned.normal = NNormal
    /\ Analysis.threat_score = 1

\* C12: confidence = clamp(50 + min(15 * R, 40) - min(10 * N, 30), 10, 95), R the number
\* of matching critical/high/medium patterns and N the number of matching normal
\* patterns; the result is within 10..95.
C12_ConfidenceFormula ==
    Scored =>
        LET R == ThreatMatches
            N == Scanned.normal
        IN  /\ Analysis.confidence =
                  Max(10, Min(BASE_CONFIDENCE + Min(15 * R, 40) - Min(10 * N, 30), 95))
            /\ Analysis.confidence \in 10..95

\* C13: threat_detected is exactly threat_score >= the configured threshold; a text
\* matching a critical pattern and no normal pattern is CRITICAL and detected for every
\* threshold <= 5; a text matching nothing has score 1, level NONE and is not detected
\* for every threshold >= 2.
C13_DetectedIffAtThreshold ==
    Scored =>
        /\ Analysis.threat_detected <=> (Analysis.threat_score >= THREAT_THRESHOLD)
        /\ (Scanned.critical > 0 /\ Scanned.normal = 0) =>
              /\ Analysis.threat_level = "CRITICAL"
              /\ THREAT_THRESHOLD <= 5 => Analysis.threat_detected
        /\ (ThreatMatches = 0 /\ Scanned.normal = 0) =>
              /\ Analysis.threat_score = 1
              /\ Analysis.threat_level = "NONE"
              /\ THREAT_THRESHOLD >= 2 => ~Analysis.threat_detected

\* C13 witness: a critical text without normal indicators, detected at threshold 5
C13_Witness ==
    /\ Scored
    /\ Scanned.critical > 0 /\ Scanned.normal = 0
    /\ THREAT_THRESHOLD = 5
    /\ Analysis.threat_level = "CRITICAL"
    /\ Analysis.threat_detected

\* C14: threat_level is fixed by threat_score (5 CRITICAL, 4 HIGH, 3 MEDIUM, 2 LOW,
\* 1 NONE) and recommended_action by threat_level (immediate_response,
\* investigate_immediately, monitor_closely, log_for_review, none), whatever the
\* configured threshold; every score analyze_threat produces has a level and an action.
C14_LevelAndActionTables ==
    Scored =>
        LET levelOf == [s \in 1..5 |->
                          <<"NONE", "LOW", "MEDIUM", "HIGH", "CRITICAL">>[s]]
            actionOf == [l \in Levels |->
                          CASE l = "CRITICAL" -> "immediate_response"
                            [] l = "HIGH" -> "investigate_immediately"
                            [] l = "MEDIUM" -> "monitor_closely"
                            [] l = "LOW" -> "log_for_review"
                            [] l = "NONE" -> "none"]
        IN  /\ Analysis.threat_score \in DOMAIN levelOf
            /\ Analysis.threat_level = levelOf[Analysis.threat_score]
            /\ Analysis.recommended_action = actionOf[Analysis.threat_level]

\* C14 witness: a high-threat text with two normal indicators, scored 2: LOW, to be
\* logged for review, under a threshold that does not alert on it
C14_Witness ==
    /\ Scored
    /\ Scanned.critical = 0 /\ Scanned.high > 0 /\ Scanned.normal = 2
    /\ Analysis.threat_score = 2
    /\ Analysis.threat_level = "LOW"
    /\ Analysis.recommended_action = "log_for_review"
    /\ ~Analysis.threat_detected

----------------------------------------------------------------------------
(* Properties of the resets and of the stages of one call *)

\* a step that is one ProcessingState.reset / one TelegramNotifier.reset_cooldown
ResetStep == trace'.op = "reset" /\ now' = now
ResetCooldownStep == trace'.op = "reset_cooldown" /\ now' = now

\* C15: reset_cooldown clears every recorded last-send time and leaves the session
\* counters, the stored motion frame and the stored dedup hash unchanged;
\* ProcessingState.reset clears motion history, dedup history and counters and leaves
\* the debounce map unchanged.
C15_ResetsIndependent ==
    [][/\ ResetCooldownStep =>
              /\ last_alert_time' = NoAlerts
              /\ UNCHANGED <<stats, prev_frame, frame_count, prev_hash>>
       /\ ResetStep =>
              /\ prev_frame' = None /\ prev_hash' = None /\ stats' = ZeroStats
              /\ last_alert_time' = last_alert_time]_vars

\* C15 witness: a stream-restart reset taken with a send time on record, which is
\* still on record after it
C15_Witness ==
    /\ trace.op = "reset"
    /\ result # None
    /\ last_alert_time["HIGH"] # None
    /\ stats = ZeroStats /\ prev_frame = None /\ prev_hash = None

\* what the gates report for a bootstrap frame
Bootstrapped ==
    /\ trace'.motion = Some([has_motion |-> TRUE, motion_percent |-> Hundred])
    /\ trace'.dedup = Some([is_dup |-> FALSE, similarity |-> Zero])

\* a call on a decodable frame when none has been processed since the last reset
FirstDecodableCall == CallStep /\ trace'.frame.ok /\ prev_frame = None

\* a reset has taken place: a send was confirmed earlier and alerts_sent, which counted
\* it, is back at 0
AfterSomeReset == stats.alerts_sent = 0 /\ \E l \in Levels : confirmed[l] # None

\* ProcessingState.reset zeroes the seven counters and clears frame and hash together
ResetClearsAll ==
    ResetStep => (stats' = ZeroStats /\ prev_frame' = None /\ prev_hash' = None)

\* C16 as stated: reset sets all seven counters to 0 and clears the stored frame and
\* the stored hash together; the first decodable frame processed after any reset is a
\* bootstrap frame (motion with 100 percent, not a duplicate, similarity 0) and
\* total_frames is 1 after it.
C16_FirstDecodableAfterReset ==
    [][/\ ResetClearsAll
       /\ (AfterSomeReset /\ FirstDecodableCall) =>
             (Bootstrapped /\ stats'.total_frames = 1)]_vars

\* C16 amended: as stated, except that total_frames is 1 after the bootstrap frame when
\* that frame is the first one processed after the reset; undecodable frames processed
\* before it are counted as well.
C16_BootstrapAfterReset ==
    [][/\ ResetClearsAll
       /\ FirstDecodableCall =>
             /\ Bootstrapped
             /\ stats'.total_frames = stats.total_frames + 1
             /\ stats.total_frames = 0 => stats'.total_frames = 1]_vars

\* C16 witness: a bootstrap frame counted as frame 1 although an earlier call of the
\* session had an alert confirmed: a reset lies between the two
C16_Witness ==
    /\ trace.op = "process_frame"
    /\ trace.frame.ok
    /\ trace.motion = Some([has_motion |-> TRUE, motion_percent |-> Hundred])
    /\ trace.dedup = Some([is_dup |-> FALSE, similarity |-> Zero])
    /\ stats.total_frames = 1
    /\ ~Res.alert_sent
    /\ \E l \in Levels : confirmed[l] # None

\* C17: a call that detects a threat while dispatching is disabled increments
\* threats_detected, does not invoke the notifier, neither consults nor changes the
\* debounce map, leaves alerts_sent and alerts_debounced unchanged and returns
\* success = true with alert_sent = false and alert_debounced = false.
C17_DisabledDispatch ==
    [][(CallStep /\ ~TELEGRAM_ENABLED /\ ThreatFound(result'[1])) =>
        /\ stats'.threats_detected = stats.threats_detected + 1
        /\ trace'.invoked \cap {"notifier", "cooldown"} = {}
        /\ last_alert_time' = last_alert_time
        /\ stats'.alerts_sent = stats.alerts_sent
        /\ stats'.alerts_debounced = stats.alerts_debounced
        /\ result'[1].success
        /\ ~result'[1].alert_sent
        /\ ~result'[1].alert_debounced]_vars

\* C17 witness: a threat found with dispatching disabled
C17_Witness ==
    /\ trace.op = "process_frame"
    /\ ~TELEGRAM_ENABLED
    /\ ThreatFound(Res)
    /\ stats.threats_detected = 1
    /\ stats.alerts_sent = 0 /\ stats.alerts_debounced = 0

\* the last call failed because the classifier raised
ClassifierRaised ==
    /\ trace.op = "process_frame"
    /\ "classifier" \in trace.invoked
    /\ ~Res.success
    /\ Res.error \in ClassifierErrors

\* C18: no stage retries (the call after a failed one is a call of its own), and a
\* frame whose call failed because the classifier raised reaches the classifier again
\* when the next process_frame call is given the same frame.
C18_FailedFrameResubmitted ==
    [][(ClassifierRaised /\ CallStep /\ trace'.frame = trace.frame) =>
        /\ "classifier" \in trace'.invoked
        /\ ~result'[1].skipped]_vars

\* C19: within one call the duplicate gate is evaluated only after the motion gate
\* reported motion, optimizer and classifier are invoked only after the duplicate gate
\* reported not-duplicate, the scorer runs only after a successful classification, and
\* the notifier is invoked only after the scorer reported a threat; a frame a stage
\* rejected reaches no later collaborator.
C19_StageOrder ==
    [][CallStep =>
        LET called == trace'.invoked
            res == result'[1]
        IN  /\ "motion" \in called
            /\ "dedup" \in called =>
                  trace'.motion[1].has_motion /\ trace'.dedup # None
            /\ called \cap {"optimizer", "classifier"} # {} =>
                  "dedup" \in called /\ ~trace'.dedup[1].is_dup
            /\ "scorer" \in called =>
                  /\ "classifier" \in called
                  /\ res.classification # None /\ res.threat_analysis # None
            /\ "notifier" \in called => ("scorer" \in called /\ ThreatFound(res))
            /\ res.skipped =>
                  called \cap {"optimizer", "classifier", "scorer", "notifier"} = {}
            /\ res.classification = None => called \cap {"scorer", "notifier"} = {}]_vars

\* C19 witness: a call that went through every stage, down to the notifier
C19_Witness ==
    /\ trace.op = "process_frame"
    /\ {"motion", "dedup", "optimizer", "classifier", "scorer", "notifier"}
          \subseteq trace.invoked
    /\ ThreatFound(Res)

\* C20: across process_frame calls the stored dedup hash changes only in a call whose
\* frame the motion gate reported as motion; a frame skipped for no motion neither
\* reads nor updates the dedup state.
C20_HashOnlyAfterMotion ==
    [][CallStep =>
        /\ prev_hash' # prev_hash => trace'.motion[1].has_motion
        /\ ~trace'.motion[1].has_motion =>
              /\ "dedup" \notin trace'.invoked
              /\ result'[1].similarity = None
              /\ UNCHANGED dedupVars]_vars

\* C20 witness: a frame skipped for no motion whose hash differs from the stored one,
\* which the duplicate gate would have replaced
C20_Witness ==
    /\ trace.op = "process_frame"
    /\ trace.frame.ok
    /\ ~trace.motion[1].has_motion
    /\ prev_hash # None
    /\ prev_hash # compute_hash(trace.frame.px)

----------------------------------------------------------------------------
(* Properties of the gates' stored references *)

\* C21: the detector holds at most one prior frame and advances it on every call with
\* a decodable frame: after detect_motion returns, the stored frame is the preprocessed
\* current frame whatever the verdict, so a frame is only ever compared against its
\* immediate decodable predecessor.
C21_StoredFrameAdvances ==
    [][(MotionCallStep /\ trace'.frame.ok) =>
        prev_frame' = Preprocess(trace'.frame.px)]_vars

\* a step that is one is_duplicate call
DedupCallStep == trace'.op = "is_duplicate"

\* the fraction of positions at which two hashes of one length agree
MatchingBits(h1, h2) ==
    Frac(Cardinality({i \in DOMAIN h1 : h1[i] = h2[i]}), Len(h1))

\* C22: is_duplicate on a decodable frame stores the frame's hash and returns (false, 0)
\* when no hash is stored; otherwise it returns the fraction of bits equal between the
\* stored and the current hash, and is_duplicate = (similarity >= threshold); in both
\* cases, a reported duplicate included, the stored hash afterwards is the current
\* frame's.
C22_DedupContract ==
    [][(DedupCallStep /\ trace'.frame.ok) =>
        LET current == compute_hash(Resize(trace'.frame.px))
            out == trace'.dedup[1]
        IN  /\ prev_hash' = current
            /\ prev_hash = None => (~out.is_dup /\ out.similarity = Zero)
            /\ prev_hash # None =>
                  /\ out.similarity = MatchingBits(prev_hash, current)
                  /\ out.is_dup <=> Geq(out.similarity, similarity_threshold)]_vars

\* C22 witness: a frame reported as a duplicate of a frame with a different hash, and
\* the stored hash is the reported frame's
C22_Witness ==
    /\ trace.op = "is_duplicate"
    /\ trace.frame.ok
    /\ trace.dedup[1].is_dup
    /\ Less(trace.dedup[1].similarity, One)
    /\ prev_hash = compute_hash(Resize(trace.frame.px))

----------------------------------------------------------------------------
(* Properties of the score *)

\* the highest severity among the categories the analysed text matches, 1 if none
MaxSeverity ==
    IF Scanned.critical > 0 THEN 5
    ELSE IF Scanned.high > 0 THEN 4
    ELSE IF Scanned.medium > 0 THEN 3
    ELSE 1

\* C23: the threat score is max(1, S - N), S the maximum severity among the categories
\* with a matching pattern (critical 5, high 4, medium 3; 1 if none) and N the number of
\* matching normal patterns; severities are never summed; threat_reasons holds one
\* reason per matching critical, high and medium pattern, in that order, and one summary
\* reason at the end when N > 0.
C23_ScoreIsMaxMinusNormal ==
    Scored =>
        LET N == Scanned.normal
            reasons == Analysis.threat_reasons
            perPattern == SubSeq(reasons, 1, ThreatMatches)
        IN  /\ Analysis.threat_score = Max(1, MaxSeverity - N)
            /\ Len(reasons) = ThreatMatches + (IF N > 0 THEN 1 ELSE 0)
            /\ \A i \in 1..ThreatMatches :
                  perPattern[i] =
                      IF i <= Scanned.critical THEN "Critical threat"
                      ELSE IF i <= Scanned.critical + Scanned.high THEN "High threat"
                      ELSE "Medium threat"
            /\ N > 0 => reasons[Len(reasons)] = "Normal activity indicators"

\* C23 witness: two critical patterns, a high and a medium one and one normal
\* indicator: the score is 5 - 1, not a sum, with five reasons
C23_Witness ==
    /\ Scored
    /\ Scanned = Profile(2, 1, 1, 1)
    /\ Analysis.threat_score = 4
    /\ Len(Analysis.threat_reasons) = 5

----------------------------------------------------------------------------
(* Properties of the debounce map, the counters and the result *)

\* a step that is one process_frame call, told by the operation it leaves in the trace
\* (the clock's step leaves the trace of the last call in place)
ProcessStep == trace'.op = "process_frame" /\ now' = now

\* C24: the debounce map is changed only by a confirmed send or by the explicit hooks
\* (reset_cooldown, and the recording method called directly): skipped frames, failed
\* classifications, failed sends and ProcessingState.reset never add, change or remove
\* an entry, and a call that queries the debounce verdict leaves the map as it was.
C24_MapChangedOnlyBySendOrHook ==
    [][/\ last_alert_time' # last_alert_time =>
             \/ trace'.op \in {"reset_cooldown", "update_last_alert_time"}
             \/ trace'.op = "process_frame" /\ result'[1].alert_sent
       /\ (trace'.op = "process_frame" /\ ~result'[1].alert_sent) =>
             last_alert_time' = last_alert_time
       /\ (trace'.op = "process_frame" /\ "cooldown" \in trace'.invoked) =>
             last_alert_time' = last_alert_time
       /\ trace'.op = "reset" => last_alert_time' = last_alert_time]_vars

\* C24 witness: a send failed, the debounce verdict was queried and answered
\* "debounce" from an entry recorded earlier, which is still the only entry
C24_Witness ==
    /\ trace.op = "process_frame"
    /\ {"notifier", "cooldown"} \subseteq trace.invoked
    /\ ~Res.alert_sent /\ Res.alert_debounced
    /\ last_alert_time[trace.level] = Some(now)
    /\ \A l \in Levels \ {trace.level} : last_alert_time[l] = None

CounterNames == DOMAIN ZeroStats

\* C25: every process_frame call increments total_frames by exactly 1, whatever its
\* outcome; no call decreases any of the seven counters and none increases by more than
\* 1 in a call; only ProcessingState.reset lowers a counter.
C25_CountersMonotonic ==
    [][/\ ProcessStep =>
             /\ stats'.total_frames = stats.total_frames + 1
             /\ \A k \in CounterNames : stats'[k] \in {stats[k], stats[k] + 1}
       /\ (\E k \in CounterNames : stats'[k] < stats[k]) => trace'.op = "reset"
       /\ ~ProcessStep /\ trace'.op # "reset" => stats' = stats]_vars

\* C25 witness: a second call that failed and was counted in total_frames all the same
C25_Witness ==
    /\ trace.op = "process_frame"
    /\ ~Res.success
    /\ stats.total_frames = 2

\* the frames counted as skipped or processed
Accounted(st) == st.skipped_no_motion + st.skipped_duplicate + st.processed

\* C26: skipped_no_motion + skipped_duplicate + processed <= total_frames in every
\* state; each call is counted in exactly one of skipped-no-motion, skipped-duplicate,
\* processed or failed (success = false), and reset returns all of them to 0, so that
\* total_frames minus the three counters is the number of failed calls since the reset.
C26_CounterConservation ==
    [][/\ Accounted(stats) <= stats.total_frames
       /\ Accounted(stats') <= stats'.total_frames
       /\ ProcessStep =>
             LET res == result'[1]
                 ones == [k \in {"skipped_no_motion", "skipped_duplicate", "processed"}
                             |-> stats'[k] - stats[k]]
                 failed == IF res.success THEN 0 ELSE 1
             IN  /\ \A k \in DOMAIN ones : ones[k] \in {0, 1}
                 /\ ones["skipped_no_motion"] + ones["skipped_duplicate"]
                       + ones["processed"] + failed = 1
                 /\ (stats'.total_frames - Accounted(stats'))
                       = (stats.total_frames - Accounted(stats)) + failed
                 /\ ones["skipped_no_motion"] = 1 <=> res.skip_reason = "no_motion"
                 /\ ones["skipped_duplicate"] = 1 <=> res.skip_reason = "duplicate"
       /\ trace'.op = "reset" /\ now' = now =>
             stats'.total_frames = 0 /\ Accounted(stats') = 0]_vars

\* C26 witness: two calls since the reset, one processed and one failed
C26_Witness ==
    /\ trace.op = "process_frame"
    /\ stats.total_frames = 2
    /\ stats.processed = 1
    /\ Accounted(stats) = 1
    /\ ~Res.success

\* C27: in every state threats_detected <= processed and alerts_sent +
\* alerts_debounced <= threats_detected, and no result has both alert_sent and
\* alert_debounced true.
C27_CounterOrdering ==
    /\ stats.threats_detected <= stats.processed
    /\ stats.alerts_sent + stats.alerts_debounced <= stats.threats_detected
    /\ result # None => ~(Res.alert_sent /\ Res.alert_debounced)

\* C27 witness: two threats found, one alert sent and one debounced
C27_Witness ==
    /\ stats.processed = 2
    /\ stats.threats_detected = 2
    /\ stats.alerts_sent = 1
    /\ stats.alerts_debounced = 1

\* C28: every result has success = false exactly when error is set; a skipped result
\* has success = true, no classification, no threat analysis and both alert flags
\* false; a result with a threat analysis carries the classification it was computed
\* from.
C28_ResultWellFormed ==
    result # None =>
        /\ ~Res.success <=> Res.error # "None"
        /\ Res.skipped =>
              /\ Res.success
              /\ Res.skip_reason \in {"no_motion", "duplicate"}
              /\ Res.classification = None /\ Res.threat_analysis = None
              /\ ~Res.alert_sent /\ ~Res.alert_debounced
        /\ Res.threat_analysis # None =>
              /\ Res.classification # None
              /\ Res.threat_analysis[1].classification = Res.classification[1]

\* C28 witness: a call that failed after the classification was put in the result
C28_Witness ==
    /\ result # None
    /\ ~Res.success
    /\ Res.error = SaveError
    /\ Res.classification # None
    /\ Res.threat_analysis = None

----------------------------------------------------------------------------
(* Properties of one stream: the dedup reference and the optimizer's copies *)

\* C29: the stored dedup hash is the hash of the most recent decodable frame the motion
\* gate reported motion for, whether that frame was then classified, skipped as a
\* duplicate or failed: a call on such a frame stores its hash, any other call leaves
\* the stored hash alone, and reset clears it; frames skipped for no motion do not
\* replace it, so a frame can be compared against one that is not its predecessor.
C29_HashOfLastMovingFrame ==
    [][/\ ProcessStep =>
             prev_hash' = IF trace'.frame.ok /\ trace'.motion[1].has_motion
                          THEN compute_hash(Resize(trace'.frame.px))
                          ELSE prev_hash
       /\ trace'.op = "reset" => prev_hash' = None]_vars

\* C29 witness: the third frame since the reset was compared for duplication although
\* the second, its predecessor, had been skipped for no motion: the comparison was
\* against the first
C29_Witness ==
    /\ trace.op = "process_frame"
    /\ stats.total_frames = 3
    /\ stats.skipped_no_motion = 1
    /\ trace.frame.ok
    /\ trace.motion[1].has_motion
    /\ trace.dedup # None
    /\ Less(Zero, trace.dedup[1].similarity)

\* C30: every optimized copy the optimizer wrote during a call has been deleted when
\* the call returns, on the success path and on the classification-failure path alike;
\* the original frame file is never deleted.
C30_OptimizedCopyDeleted ==
    [][ProcessStep =>
        /\ "save_copy" \in trace'.invoked => "unlink_copy" \in trace'.invoked
        /\ "unlink_copy" \in trace'.invoked => "save_copy" \in trace'.invoked]_vars

----------------------------------------------------------------------------
(* Properties of the session singleton *)

\* the session's fields: gate history, gate tunables and counters
sessionVars == <<motionVars, dedupVars, stats>>

\* C31: the session state is created once and persists: constructing ProcessingState
\* again returns the same instance and re-initializes neither the motion detector, nor
\* the deduplicator, nor the counters, so gate history and counters carry over between
\* calls and change only through process_frame and ProcessingState.reset.
C31_SingletonPersists ==
    [][/\ instance # 0 => instance' = instance
       /\ (trace'.op = "construct" /\ instance # 0) => UNCHANGED sessionVars
       /\ ~UNCHANGED sessionVars => trace'.op \in {"process_frame", "reset"}]_vars

\* C31 witness: ProcessingState() constructed again in mid-stream, with a frame and a
\* hash stored and two frames counted, all still in place on the first object
C31_Witness ==
    /\ trace.op = "construct"
    /\ instance = 1
    /\ prev_frame # None /\ prev_hash # None
    /\ frame_count = 2
    /\ stats.total_frames = 2

====
